---------------------------- MODULE Spec2Model ----------------------------
(***************************************************************************)
(* A model of runner/ext/namelist.py: the namelist value grammar, the      *)
(* group/line parser, the formatter, the Namelist facade and the           *)
(* file-level helpers.                                                     *)
(*                                                                         *)
(* Text is a sequence of one-character strings.  A Python value is a       *)
(* record [k, n, d, s, l]:                                                 *)
(*   k = "int"    n = the integer                                          *)
(*   k = "float"  n * 10^(-d), n not a multiple of 10 unless d = 0         *)
(*   k = "bool"   n = 1 (True) or 0 (False)                                *)
(*   k = "str"    s = the characters                                       *)
(*   k = "list"   l = the elements                                         *)
(*   k = "ValueError" / "IndexError": the call raised that exception       *)
(* Float literals are the decimal forms [sign] digits [. digits] (no       *)
(* exponent, inf or nan); integer literals are [sign] digits (no           *)
(* underscores).  White space is the blank and the line feed.              *)
(***************************************************************************)
EXTENDS Integers, Sequences, FiniteSets, TLC

(* ------------------------------ bounds --------------------------------- *)
\* longest free-form value-text enumerated over ValueAlphabet
MaxFree == 3
\* most scalar tokens of an enumerated array
MaxTokens == 2
\* most items of an enumerated mapping
MaxParams == 2
\* most physical lines of an enumerated namelist text
MaxLines == 5
\* most dumps/loads calls of a session
MaxCalls == 3
\* most source (and destination) files of a helper call
MaxFiles == 2
\* most requested parameters of a helper call
MaxRequest == 2
\* most items of a mapping whose groups may come back after another group
MaxGrouped == 3
\* most "&GROUP ... /" blocks of a text written block by block
MaxBlocks == 2
\* longest logical line written freely over the line alphabet
MaxLineFree == 4

(* --------------------------- str primitives ---------------------------- *)
NL == "\n"
White == {" ", NL}
Digits == {"0", "1", "2", "3", "4", "5", "6", "7", "8", "9"}

RECURSIVE lstrip(_)
\* str.lstrip()
lstrip(s) ==
    IF s # <<>> /\ Head(s) \in White THEN lstrip(Tail(s)) ELSE s

RECURSIVE rstrip(_)
\* str.rstrip()
rstrip(s) ==
    IF s # <<>> /\ s[Len(s)] \in White THEN rstrip(SubSeq(s, 1, Len(s) - 1)) ELSE s

\* str.strip()
strip(s) == rstrip(lstrip(s))

\* c in s, for a one-character c
Contains(s, c) == \E i \in 1..Len(s) : s[i] = c

\* s.index(c): the first position of c (1-based here)
index(s, c) == CHOOSE i \in 1..Len(s) : s[i] = c /\ \A j \in 1..(i - 1) : s[j] # c

\* s.count(c)
count(s, c) == Cardinality({i \in 1..Len(s) : s[i] = c})

\* s.startswith(c), s.endswith(c)
startswith(s, c) == s # <<>> /\ s[1] = c
endswith(s, c) == s # <<>> /\ s[Len(s)] = c

RECURSIVE split(_, _)
\* s.split(c) with an explicit separator: empty pieces are kept
split(s, c) ==
    IF Contains(s, c)
    THEN LET i == index(s, c)
         IN  <<SubSeq(s, 1, i - 1)>> \o split(SubSeq(s, i + 1, Len(s)), c)
    ELSE <<s>>

RECURSIVE wsplit(_)
\* s.split() without separator: runs of white space separate, no empty piece
wsplit(s) ==
    LET t == lstrip(s)
    IN  IF t = <<>> THEN <<>>
        ELSE LET ends == {i \in 1..Len(t) : t[i] \in White}
                 e == IF ends = {} THEN Len(t) + 1
                      ELSE CHOOSE i \in ends : \A j \in ends : i <= j
             IN  <<SubSeq(t, 1, e - 1)>> \o wsplit(SubSeq(t, e, Len(t)))

LowerChar(c) ==
    CASE c = "T" -> "t" [] c = "R" -> "r" [] c = "U" -> "u" [] c = "E" -> "e"
      [] c = "F" -> "f" [] c = "A" -> "a" [] c = "L" -> "l" [] c = "S" -> "s"
      [] OTHER -> c

\* s.lower()
lower(s) == [i \in 1..Len(s) |-> LowerChar(s[i])]

RECURSIVE join(_, _)
\* sep.join(parts)
join(parts, sep) ==
    IF parts = <<>> THEN <<>>
    ELSE IF Len(parts) = 1 THEN parts[1]
    ELSE parts[1] \o sep \o join(Tail(parts), sep)

(* ------------------------------ values --------------------------------- *)
IntV(i) == [k |-> "int", n |-> i, d |-> 0, s |-> <<>>, l |-> <<>>]
FloatV(m, e) == [k |-> "float", n |-> m, d |-> e, s |-> <<>>, l |-> <<>>]
BoolV(b) == [k |-> "bool", n |-> IF b THEN 1 ELSE 0, d |-> 0, s |-> <<>>, l |-> <<>>]
StrV(t) == [k |-> "str", n |-> 0, d |-> 0, s |-> t, l |-> <<>>]
ListV(vs) == [k |-> "list", n |-> 0, d |-> 0, s |-> <<>>, l |-> vs]
Raise(e) == [k |-> e, n |-> 0, d |-> 0, s |-> <<>>, l |-> <<>>]
ValueError == Raise("ValueError")
IndexError == Raise("IndexError")
Raised(v) == v.k \in {"ValueError", "IndexError"}

(* --------------------------- int() and float() ------------------------- *)
DigitVal(c) ==
    CASE c = "0" -> 0 [] c = "1" -> 1 [] c = "2" -> 2 [] c = "3" -> 3 [] c = "4" -> 4
      [] c = "5" -> 5 [] c = "6" -> 6 [] c = "7" -> 7 [] c = "8" -> 8 [] c = "9" -> 9

AllDigits(s) == \A i \in 1..Len(s) : s[i] \in Digits

RECURSIVE DigitsVal(_)
DigitsVal(s) ==
    IF s = <<>> THEN 0 ELSE 10 * DigitsVal(SubSeq(s, 1, Len(s) - 1)) + DigitVal(s[Len(s)])

Signed(s) == s # <<>> /\ s[1] \in {"+", "-"}
Unsigned(s) == IF Signed(s) THEN Tail(s) ELSE s
Sign(s) == IF s # <<>> /\ s[1] = "-" THEN -1 ELSE 1

\* int(s) does not raise
IsIntLit(s) ==
    LET u == Unsigned(strip(s)) IN u # <<>> /\ AllDigits(u)

\* int(s), when it does not raise
IntOf(s) == Sign(strip(s)) * DigitsVal(Unsigned(strip(s)))

\* float(s) does not raise
IsFloatLit(s) ==
    LET u == Unsigned(strip(s))
    IN  \/ u # <<>> /\ AllDigits(u)
        \/ /\ count(u, ".") = 1
           /\ Len(u) >= 2
           /\ \A i \in 1..Len(u) : u[i] \in Digits \cup {"."}

RECURSIVE Normal(_, _)
\* the float m * 10^(-e) without trailing zeros in its fraction
Normal(m, e) == IF e > 0 /\ m % 10 = 0 THEN Normal(m \div 10, e - 1) ELSE FloatV(m, e)

\* float(s), when it does not raise
FloatOf(s) ==
    LET t == strip(s)
        u == Unsigned(t)
    IN  IF Contains(u, ".")
        THEN LET p == index(u, ".")
                 ip == SubSeq(u, 1, p - 1)
                 fp == SubSeq(u, p + 1, Len(u))
             IN  Normal(Sign(t) * DigitsVal(ip \o fp), Len(fp))
        ELSE Normal(Sign(t) * DigitsVal(u), 0)

(* ---------------------------- value grammar ---------------------------- *)
TrueWords == {<<".", "t", "r", "u", "e", ".">>, <<"t">>, <<"t", "r", "u", "e">>}
FalseWords == {<<".", "f", "a", "l", "s", "e", ".">>, <<"f">>, <<"f", "a", "l", "s", "e">>}

\* the quoted-string test of _parse_value
IsQuoted(v) ==
    \/ startswith(v, "'") /\ endswith(v, "'") /\ count(v, "'") = 2
    \/ startswith(v, "\"") /\ endswith(v, "\"") /\ count(v, "\"") = 2

\* n * [x] and list.extend: a count below one gives the empty list
Repeat(n, x) == [i \in 1..n |-> x]

RECURSIVE _parse_value(_), _parse_array(_)

\* _parse_value with float() tried before int()
ParseValueFloatFirst(v) ==
    IF IsFloatLit(v) THEN FloatOf(v)
    ELSE IF IsIntLit(v) THEN IntV(IntOf(v))
    ELSE IF lower(v) \in TrueWords THEN BoolV(TRUE)
    ELSE IF lower(v) \in FalseWords THEN BoolV(FALSE)
    ELSE IF IsQuoted(v) THEN StrV(SubSeq(v, 2, Len(v) - 1))
    ELSE IF startswith(v, "/") /\ endswith(v, "/")
         THEN _parse_array(split(SubSeq(v, 2, Len(v) - 1), ","))
    ELSE IF Contains(v, ",") THEN _parse_array(split(v, ","))
    ELSE IF Contains(v, "*") THEN _parse_array(<<v>>)
    ELSE IF Len(wsplit(v)) > 1 THEN _parse_array(wsplit(v))
    ELSE ValueError

\* _parse_value with the comma rule tried before the slash rule
ParseValueCommaFirst(v) ==
    IF IsIntLit(v) THEN IntV(IntOf(v))
    ELSE IF IsFloatLit(v) THEN FloatOf(v)
    ELSE IF lower(v) \in TrueWords THEN BoolV(TRUE)
    ELSE IF lower(v) \in FalseWords THEN BoolV(FALSE)
    ELSE IF IsQuoted(v) THEN StrV(SubSeq(v, 2, Len(v) - 1))
    ELSE IF Contains(v, ",") THEN _parse_array(split(v, ","))
    ELSE IF startswith(v, "/") /\ endswith(v, "/")
         THEN _parse_array(split(SubSeq(v, 2, Len(v) - 1), ","))
    ELSE IF Contains(v, "*") THEN _parse_array(<<v>>)
    ELSE IF Len(wsplit(v)) > 1 THEN _parse_array(wsplit(v))
    ELSE ValueError

_parse_value(v) ==
    IF IsIntLit(v) THEN IntV(IntOf(v))
    ELSE IF IsFloatLit(v) THEN FloatOf(v)
    ELSE IF lower(v) \in TrueWords THEN BoolV(TRUE)
    ELSE IF lower(v) \in FalseWords THEN BoolV(FALSE)
    ELSE IF IsQuoted(v) THEN StrV(SubSeq(v, 2, Len(v) - 1))
    ELSE IF startswith(v, "/") /\ endswith(v, "/")
         THEN _parse_array(split(SubSeq(v, 2, Len(v) - 1), ","))
    ELSE IF Contains(v, ",") THEN _parse_array(split(v, ","))
    ELSE IF Contains(v, "*") THEN _parse_array(<<v>>)
    ELSE IF Len(wsplit(v)) > 1 THEN _parse_array(wsplit(v))
    ELSE ValueError

\* int(mult) * [x], or the exception the parse of x raised
Repeated(n, x) == IF Raised(x) THEN x ELSE ListV(Repeat(n, x))

\* mult, val = v.split('*'); int(mult) * [_parse_value(val.strip())]
RepeatItem(mv) ==
    IF Len(mv) # 2 THEN ValueError
    ELSE IF ~IsIntLit(mv[1]) THEN ValueError
    ELSE Repeated(IntOf(mv[1]), _parse_value(strip(mv[2])))

\* one element of _parse_array's loop: the values it adds, or the exception
ParseItem(v) ==
    IF Contains(v, "*") THEN RepeatItem(split(v, "*")) ELSE Repeated(1, _parse_value(v))

\* the values xs followed by those of r, or the exception r is
Extended(xs, r) == IF Raised(r) THEN r ELSE ListV(xs \o r.l)

\* the values of item h followed by the parse of the rest, or the first exception
Extend(h, rest) == IF Raised(h) THEN h ELSE Extended(h.l, _parse_array(rest))

_parse_array(values) ==
    IF values = <<>> THEN ListV(<<>>) ELSE Extend(ParseItem(values[1]), Tail(values))

(* ------------------------------ parse_nml ------------------------------ *)
NoExc == "none"

\* the outcome of a call: what it returned, or the exception it raised
Ok(x) == [exc |-> NoExc, val |-> x]
Err(e) == [exc |-> e, val |-> <<>>]

\* the list xs followed by the list of outcome r, or the exception of r
Concat(xs, r) == IF r.exc # NoExc THEN r ELSE Ok(xs \o r.val)

\* ParamNml(group, name, value, help)
ParamNml(group, name, value, help) ==
    [group |-> group, name |-> name, value |-> value, help |-> help]

\* the lines parse_nml keeps: stripped, not empty, not a full-line comment;
\* cut at the first "!" when ignore_comments is set
FilteredLines(string, ignore_comments) ==
    LET raw == split(string, NL)
        stripped == [i \in 1..Len(raw) |-> strip(raw[i])]
        kept == SelectSeq(stripped, LAMBDA l : l # <<>> /\ ~startswith(l, "!"))
    IN  [i \in 1..Len(kept) |->
            IF ignore_comments /\ Contains(kept[i], "!")
            THEN SubSeq(kept[i], 1, index(kept[i], "!") - 1)
            ELSE kept[i]]

\* the length of the longest prefix of t without the character c
RunLength(t, c) == IF Contains(t, c) THEN index(t, c) - 1 ELSE Len(t)

RECURSIVE FindGroups(_)
\* re.findall(r'&([^&]+)/', t, re.DOTALL): leftmost matches, each as long as
\* possible: from an "&" over characters other than "&" to the last "/"
\* before the next "&"
FindGroups(t) ==
    IF ~Contains(t, "&") THEN <<>>
    ELSE LET rest == SubSeq(t, index(t, "&") + 1, Len(t))
             run == RunLength(rest, "&")
             slashes == {j \in 2..run : rest[j] = "/"}
         IN  IF slashes = {} THEN FindGroups(rest)
             ELSE LET j == CHOOSE x \in slashes : \A y \in slashes : y <= x
                  IN  <<SubSeq(rest, 1, j - 1)>> \o FindGroups(SubSeq(rest, j + 1, Len(rest)))

\* the name of a group from the first line of its block
GroupName(first) ==
    LET group_name == strip(first)
    IN  IF Contains(group_name, "!")
        THEN strip(SubSeq(group_name, 1, index(group_name, "!") - 1))
        ELSE group_name

RECURSIVE JoinedLinesSkip(_, _)
\* the continuation filter, with continuation lines left out instead of appended
JoinedLinesSkip(group_lines, joined_lines) ==
    IF group_lines = <<>> THEN Ok(joined_lines)
    ELSE IF Contains(strip(group_lines[1]), "=")
         THEN JoinedLinesSkip(Tail(group_lines), Append(joined_lines, strip(group_lines[1])))
         ELSE IF strip(group_lines[1]) = <<>> \/ joined_lines # <<>>
              THEN JoinedLinesSkip(Tail(group_lines), joined_lines)
              ELSE Err("IndexError")

RECURSIVE JoinedLines(_, _)
\* the continuation filter: a line with "=" starts a logical line, another
\* non-empty line is appended to joined_lines[-1] (IndexError when there is none)
JoinedLines(group_lines, joined_lines) ==
    IF group_lines = <<>> THEN Ok(joined_lines)
    ELSE LET line == strip(group_lines[1])
             n == Len(joined_lines)
         IN  IF Contains(line, "=")
             THEN JoinedLines(Tail(group_lines), Append(joined_lines, line))
             ELSE IF line = <<>> THEN JoinedLines(Tail(group_lines), joined_lines)
             ELSE IF n = 0 THEN Err("IndexError")
             ELSE JoinedLines(Tail(group_lines),
                              [joined_lines EXCEPT ![n] = joined_lines[n] \o line])

\* the comment without the strip(): line[sep+1:]
CommentRaw(line) ==
    IF Contains(line, "!") THEN SubSeq(line, index(line, "!") + 1, Len(line)) ELSE <<>>

\* the comment of a line: the stripped text after the first "!"
Comment(line) ==
    IF Contains(line, "!") THEN strip(SubSeq(line, index(line, "!") + 1, Len(line)))
    ELSE <<>>

\* the line without its comment
Uncomment(line) ==
    IF Contains(line, "!") THEN strip(SubSeq(line, 1, index(line, "!") - 1)) ELSE line

\* the line without one trailing comma
DropComma(line) == IF endswith(line, ",") THEN SubSeq(line, 1, Len(line) - 1) ELSE line

\* (name, value, comment), or the exception the parse of the value raised
LineResult(name, value, comment) ==
    IF Raised(value) THEN Err(value.k)
    ELSE Ok([name |-> name, value |-> value, comment |-> comment])

\* k, v = line.split('='): ValueError unless there are exactly two pieces
SplitLine(kv, comment) ==
    IF Len(kv) # 2 THEN Err("ValueError")
    ELSE LineResult(strip(kv[1]), _parse_value(strip(kv[2])), comment)

\* _parse_line(line): name, value and comment, or the exception raised
_parse_line(line) == SplitLine(split(DropComma(Uncomment(line)), "="), Comment(line))

RECURSIVE ParseLines(_, _)

\* the ParamNml of the parsed line p, then those of the rest of the lines
ParamThen(group_name, p, rest) ==
    IF p.exc # NoExc THEN Err(p.exc)
    ELSE Concat(<<ParamNml(group_name, p.val.name, p.val.value, p.val.comment)>>,
                ParseLines(group_name, rest))

\* the loop over the logical lines of one group
ParseLines(group_name, lines) ==
    IF lines = <<>> THEN Ok(<<>>)
    ELSE ParamThen(group_name, _parse_line(lines[1]), Tail(lines))

\* the parameters of the joined lines of a group
BlockLines(group_name, joined) ==
    IF joined.exc # NoExc THEN Err(joined.exc) ELSE ParseLines(group_name, joined.val)

\* the body of parse_nml's loop for one group block
ParseBlock(group_block) ==
    BlockLines(GroupName(split(group_block, NL)[1]),
               JoinedLines(Tail(split(group_block, NL)), <<>>))

RECURSIVE ParseBlocks(_)

\* the parameters of block outcome h, then those of the rest of the blocks
BlocksThen(h, rest) == IF h.exc # NoExc THEN h ELSE Concat(h.val, ParseBlocks(rest))

\* parse_nml's loop over the group blocks
ParseBlocks(group_blocks) ==
    IF group_blocks = <<>> THEN Ok(<<>>)
    ELSE BlocksThen(ParseBlock(group_blocks[1]), Tail(group_blocks))

\* parse_nml(string, ignore_comments): the list of ParamNml, or the exception
parse_nml(string, ignore_comments) ==
    ParseBlocks(FindGroups(join(FilteredLines(string, ignore_comments), <<NL>>)))

(* ------------------------------ format_nml ----------------------------- *)
\* the width of the name field, "{:15}"
NameWidth == 15
\* the width of the line before the comment, "{:30}"
LineWidth == 30

DigitChar(i) ==
    CASE i = 0 -> "0" [] i = 1 -> "1" [] i = 2 -> "2" [] i = 3 -> "3" [] i = 4 -> "4"
      [] i = 5 -> "5" [] i = 6 -> "6" [] i = 7 -> "7" [] i = 8 -> "8" [] i = 9 -> "9"

RECURSIVE NatRepr(_)
NatRepr(i) == IF i < 10 THEN <<DigitChar(i)>> ELSE Append(NatRepr(i \div 10), DigitChar(i % 10))

Abs(i) == IF i < 0 THEN -i ELSE i

\* repr of an int
IntRepr(i) == IF i < 0 THEN <<"-">> \o NatRepr(-i) ELSE NatRepr(i)

\* "{:w}".format(s) for a string: blanks added on the right up to width w
Pad(s, w) == s \o [i \in 1..(w - Len(s)) |-> " "]

\* s, with "0" added on the left up to width w
ZeroFill(s, w) == [i \in 1..(w - Len(s)) |-> "0"] \o s

\* repr of the float m * 10^(-e) (positional notation)
FloatRepr(m, e) ==
    LET digs == ZeroFill(NatRepr(Abs(m)), e + 1)
        ip == SubSeq(digs, 1, Len(digs) - e)
        fp == SubSeq(digs, Len(digs) - e + 1, Len(digs))
    IN  (IF m < 0 THEN <<"-">> ELSE <<>>) \o ip \o <<".">> \o (IF e = 0 THEN <<"0">> ELSE fp)

RECURSIVE Escaped(_, _)
\* the characters of a str repr between its quotes
Escaped(t, q) ==
    IF t = <<>> THEN <<>>
    ELSE (CASE t[1] = "\\" -> <<"\\", "\\">>
            [] t[1] = NL -> <<"\\", "n">>
            [] t[1] = q -> <<"\\", q>>
            [] OTHER -> <<t[1]>>) \o Escaped(Tail(t), q)

\* repr of a str: double quotes only when it holds ' and no "
StrRepr(t) ==
    IF Contains(t, "'") /\ ~Contains(t, "\"")
    THEN <<"\"">> \o Escaped(t, "\"") \o <<"\"">>
    ELSE <<"'">> \o Escaped(t, "'") \o <<"'">>

RECURSIVE repr(_)
\* repr(value)
repr(value) ==
    CASE value.k = "int" -> IntRepr(value.n)
      [] value.k = "float" -> FloatRepr(value.n, value.d)
      [] value.k = "bool" ->
            IF value.n = 1 THEN <<"T", "r", "u", "e">> ELSE <<"F", "a", "l", "s", "e">>
      [] value.k = "str" -> StrRepr(value.s)
      [] value.k = "list" ->
            <<"[">> \o join([i \in 1..Len(value.l) |-> repr(value.l[i])], <<",", " ">>)
                    \o <<"]">>

\* _format_value(value)
_format_value(value) ==
    IF value.k = "bool"
    THEN IF value.n = 1 THEN <<".", "t", "r", "u", "e", ".">>
         ELSE <<".", "f", "a", "l", "s", "e", ".">>
    ELSE repr(value)

\* the text of a value in its line: the elements of a list joined by blanks
ValueText(value) ==
    IF value.k = "list"
    THEN join([i \in 1..Len(value.l) |-> _format_value(value.l[i])], <<" ">>)
    ELSE _format_value(value)

\* line += ' ! ' + help, when there is a help text
WithHelp(line, help) == IF help # <<>> THEN line \o <<" ", "!", " ">> \o help ELSE line

\* the line format_nml writes for one parameter
FormatLine(param) ==
    WithHelp(Pad(<<" ">> \o Pad(param.name, NameWidth) \o <<" ", "=", " ">>
                 \o ValueText(param.value), LineWidth),
             param.help)

RECURSIVE GroupRun(_)
\* the number of leading parameters of the group of params[1] (itertools.groupby)
GroupRun(params) ==
    IF Len(params) >= 2 /\ params[2].group = params[1].group
    THEN 1 + GroupRun(Tail(params))
    ELSE 1

RECURSIVE FormatGroups(_)

\* the lines of the first n parameters, one group, then those of the rest
GroupLines(params, n) ==
    Concat(<<(<<"&">> \o params[1].group)>>
               \o [i \in 1..n |-> FormatLine(params[i])]
               \o << <<"/">> >>,
           FormatGroups(SubSeq(params, n + 1, Len(params))))

\* format_nml's loop without the test of the group name
FormatGroupsUnchecked(params) ==
    IF params = <<>> THEN Ok(<<>>) ELSE GroupLines(params, GroupRun(params))

\* the lines of format_nml, or the exception it raises
FormatGroups(params) ==
    IF params = <<>> THEN Ok(<<>>)
    ELSE IF params[1].group = <<>> THEN Err("ValueError")
    ELSE GroupLines(params, GroupRun(params))

\* "\n".join(lines) + "\n"
JoinText(r) == IF r.exc # NoExc THEN r ELSE Ok(join(r.val, <<NL>>) \o <<NL>>)

\* format_nml(params): the text, or the exception
format_nml(params) == JoinText(FormatGroups(params))

(* ------------------------------- Namelist ------------------------------ *)
\* a mapping (dict, OrderedDict) is the sequence of its items in key order
Item(key, value) == [key |-> key, value |-> value]

Keys(m) == [i \in 1..Len(m) |-> m[i].key]

HasKey(m, key) == \E i \in 1..Len(m) : m[i].key = key

\* m[key] = value that leaves the value of an existing key alone
SetItemKeepsFirst(m, key, value) ==
    IF HasKey(m, key) THEN m ELSE Append(m, Item(key, value))

\* m[key] = value: an existing key keeps its place
SetItem(m, key, value) ==
    IF HasKey(m, key)
    THEN [i \in 1..Len(m) |-> IF m[i].key = key THEN Item(key, value) ELSE m[i]]
    ELSE Append(m, Item(key, value))

RECURSIVE odict(_)
\* OrderedDict(pairs)
odict(pairs) ==
    IF pairs = <<>> THEN <<>>
    ELSE LET n == Len(pairs)
         IN  SetItem(odict(SubSeq(pairs, 1, n - 1)), pairs[n].key, pairs[n].value)

RECURSIVE DumpsPars(_, _)

\* group, name = longname.split(sep): ValueError unless there are two pieces
DumpsItem(sp, gn, value, rest) ==
    IF Len(gn) # 2 THEN Err("ValueError")
    ELSE Concat(<<ParamNml(gn[1], gn[2], value, <<>>)>>, DumpsPars(sp, rest))

\* the loop of Namelist.dumps
DumpsPars(sp, items) ==
    IF items = <<>> THEN Ok(<<>>)
    ELSE DumpsItem(sp, split(items[1].key, sp), items[1].value, Tail(items))

\* return format_nml(pars)
FormatPars(r) == IF r.exc # NoExc THEN r ELSE format_nml(r.val)

\* Namelist(sep).dumps(params): the text, or the exception
dumps(sp, items) == FormatPars(DumpsPars(sp, items))

\* the flattened key and the value of a ParamNml
Flat(sp, p) == Item(p.group \o <<sp>> \o p.name, p.value)

\* odict([(p.group + sep + p.name, p.value) for p in params])
LoadsMap(sp, r) ==
    IF r.exc # NoExc THEN r
    ELSE Ok(odict([i \in 1..Len(r.val) |-> Flat(sp, r.val[i])]))

\* Namelist(sep).loads(string): the mapping, or the exception
loads(sp, text) == LoadsMap(sp, parse_nml(text, FALSE))

(* --------------------------- file-level helpers ------------------------ *)
RECURSIVE NmlUpdateAll(_, _)
\* nml_update_if_exists with the test "if key in par" left out: par.update(new)
NmlUpdateAll(par, new) ==
    IF new = <<>> THEN par
    ELSE NmlUpdateAll(SetItem(par, new[1].key, new[1].value), Tail(new))

RECURSIVE nml_update_if_exists(_, _)
\* nml_update_if_exists(par, new): only the keys par already has are updated
nml_update_if_exists(par, new) ==
    IF new = <<>> THEN par
    ELSE nml_update_if_exists(IF HasKey(par, new[1].key)
                              THEN SetItem(par, new[1].key, new[1].value)
                              ELSE par,
                              Tail(new))

\* grp_aliases[grp] when grp is an alias, else grp
GroupOf(grp, grp_aliases) ==
    IF HasKey(grp_aliases, grp)
    THEN (CHOOSE a \in {grp_aliases[i] : i \in 1..Len(grp_aliases)} : a.key = grp).value
    ELSE grp

\* key_new of param_map_groups: "{}.{}".format(grp_new, par) of the first two
\* pieces of key.split('.'), or the key itself when it holds no "."
KeyNew(key, grp_aliases) ==
    IF Contains(key, ".")
    THEN GroupOf(split(key, ".")[1], grp_aliases) \o <<".">> \o split(key, ".")[2]
    ELSE key

RECURSIVE param_map_groups(_, _)
\* param_map_groups(params, grp_aliases)
param_map_groups(items, grp_aliases) ==
    IF items = <<>> THEN <<>>
    ELSE SetItem(param_map_groups(SubSeq(items, 1, Len(items) - 1), grp_aliases),
                 KeyNew(items[Len(items)].key, grp_aliases),
                 items[Len(items)].value)

\* grp_aliases = None
None == << Item(<<"None">>, <<"None">>) >>

\* the first statement of param_write_to_files
ParamsMapped(items, grp_aliases) ==
    IF grp_aliases # None /\ Len(grp_aliases) > 0
    THEN param_map_groups(items, grp_aliases)
    ELSE items

\* FileType.load(f): self.loads(f.read()), of Namelist() with the default sep
FileLoad(text) == loads(".", text)

\* FileType.dump(params, f): f.write(self.dumps(params))
FileDump(items) == dumps(".", items)

\* all_keys of param_check_all
AllKeys(params_all) ==
    UNION {{params_all[i][j].key : j \in 1..Len(params_all[i])} : i \in 1..Len(params_all)}

\* missing_keys of param_check_all: set(params) - set(all_keys)
MissingKeys(items, params_all) ==
    {items[i].key : i \in 1..Len(items)} \ AllKeys(params_all)

\* param_check_all's verdict with the test of missing_keys left out
CheckNeverRaises(missing_keys) == FALSE

\* param_check_all raises when len(missing_keys) > 0
CheckRaises(missing_keys) == Cardinality(missing_keys) > 0

\* what param_write_to_file does once the source is loaded: the mapping it
\* hands to dump and the outcome of dumps (the file is opened before the dump)
WriteDumped(params_now, r) ==
    [stage |-> "dump", exc |-> r.exc, map |-> params_now, text |-> r.val]

WriteUpdated(params_now) == WriteDumped(params_now, FileDump(params_now))

WriteLoaded(items, ld) ==
    IF ld.exc # NoExc THEN [stage |-> "load", exc |-> ld.exc, map |-> <<>>, text |-> <<>>]
    ELSE WriteUpdated(nml_update_if_exists(ld.val, items))

\* param_write_to_file(params, par_src_path, par_dst_path), on the source text
param_write_to_file(items, text) == WriteLoaded(items, FileLoad(text))

(* ------------------------- state of the model -------------------------- *)
VARIABLES
    form,            \* how variable_value was written: raw, whole, slash, comma, white
    tokens,          \* the tokens variable_value was written from (none when raw)
    variable_value,  \* the argument of _parse_value
    parsed_value,    \* what _parse_value returned or raised; Unset before the call
    line,            \* the argument of _parse_line
    parsed_line,     \* what _parse_line returned or raised; Err("unset") before
    sep,             \* Namelist.sep
    start,           \* what the session was given: "params" (a mapping) or "string"
    lines,           \* the physical lines the given string was written from
    params,          \* the mapping: given, or returned by the last loads
    string,          \* the text: given, or returned by the last dumps
    records,         \* the ParamNml list parse_nml returned in the last loads
    exc,             \* the exception the last call raised, or NoExc
    calls,           \* the calls made so far, in order
    first,           \* the first mapping of the session: given, or first loaded
    entry,           \* the file-level helper that was called
    pc,              \* where that call stands: map, check, write, done, raised
    request,         \* the params argument of the helper
    grp_aliases,     \* the grp_aliases argument (None when not given)
    nml_src_paths,   \* the source paths
    nml_dst_paths,   \* the destination paths
    fs,              \* the text of every file
    params_mapped,   \* params_mapped of param_write_to_files
    params_all,      \* params_all of param_check_all
    k,               \* the index of the file the current loop is at
    error,           \* the exception that ended the call
    io,              \* the file operations so far, in order
    written,         \* the mappings handed to dump so far
    rpc,             \* where the call of ModelInterface.run stands
    rundir_exists,   \* os.path.exists(rundir)
    background,      \* the background argument of run
    filename,        \* whether self.filename is set
    status,          \* info['status']
    runfile,         \* the status recorded in runner.json ("none": no such file)
    raising,         \* the exception run is raising, or NoExc
    steps            \* the steps taken so far, in order, each with its outcome

valueVars == <<form, tokens, variable_value, parsed_value, line, parsed_line>>
nmlVars == <<sep, start, lines, params, string, records, exc, calls, first>>
fileVars == <<entry, pc, request, grp_aliases, nml_src_paths, nml_dst_paths, fs,
              params_mapped, params_all, k, error, io, written>>
runVars == <<rpc, rundir_exists, background, filename, status, runfile, raising, steps>>
vars == <<valueVars, nmlVars, fileVars, runVars>>

Unset == Raise("unset")

(* ------------------------ inputs of _parse_value ----------------------- *)
\* scalar literals with the value Python gives them
ScalarPool ==
    { [text |-> <<"1", "0">>, rep |-> FALSE, cnt |-> 1, val |-> IntV(10)],
      [text |-> <<"1">>, rep |-> FALSE, cnt |-> 1, val |-> IntV(1)],
      [text |-> <<"2">>, rep |-> FALSE, cnt |-> 1, val |-> IntV(2)],
      [text |-> <<"1", "0", ".", "0">>, rep |-> FALSE, cnt |-> 1, val |-> FloatV(10, 0)],
      [text |-> <<"-", "2", ".", "5">>, rep |-> FALSE, cnt |-> 1, val |-> FloatV(-25, 1)],
      [text |-> <<".", "t", "r", "u", "e", ".">>, rep |-> FALSE, cnt |-> 1, val |-> BoolV(TRUE)],
      [text |-> <<"F">>, rep |-> FALSE, cnt |-> 1, val |-> BoolV(FALSE)],
      [text |-> <<"'", "x", "'">>, rep |-> FALSE, cnt |-> 1, val |-> StrV(<<"x">>)],
      [text |-> <<"\"", "y", "'", "\"">>, rep |-> FALSE, cnt |-> 1, val |-> StrV(<<"y", "'">>)] }

\* COUNT*VALUE tokens with the count and the value of VALUE
RepeatPool ==
    { [text |-> <<"3", "*", "4">>, rep |-> TRUE, cnt |-> 3, val |-> IntV(4)],
      [text |-> <<"2", "*", "3">>, rep |-> TRUE, cnt |-> 2, val |-> IntV(3)],
      [text |-> <<"2", "*", "'", "x", "'">>, rep |-> TRUE, cnt |-> 2, val |-> StrV(<<"x">>)],
      [text |-> <<"0", "*", "1">>, rep |-> TRUE, cnt |-> 0, val |-> IntV(1)] }

TokenPool == ScalarPool \cup RepeatPool

ValueAlphabet == {"1", ".", "t", "'", ",", " ", "*", "/"}

RECURSIVE Strings(_, _)
\* the strings over alphabet A of length at most n
Strings(A, n) ==
    IF n = 0 THEN {<<>>}
    ELSE LET S == Strings(A, n - 1)
         IN  S \cup {Append(s, c) : s \in {t \in S : Len(t) = n - 1}, c \in A}

TokenSeqs == UNION {[1..n -> TokenPool] : n \in 1..MaxTokens}

Forms == {"whole", "slash", "comma", "blank", "white"}

Texts(toks) == [i \in 1..Len(toks) |-> toks[i].text]

\* the value-text of a token sequence written in a form
FormText(f, toks) ==
    CASE f = "whole" -> toks[1].text
      [] f = "slash" -> <<"/">> \o join(Texts(toks), <<",">>) \o <<"/">>
      [] f = "comma" -> join(Texts(toks), <<",">>)
      [] f = "blank" -> join(Texts(toks), <<",", " ">>)
      [] f = "white" -> join(Texts(toks), <<" ">>)

FormOk(f, toks) ==
    CASE f = "whole" -> Len(toks) = 1
      [] f = "slash" -> TRUE
      [] f = "comma" -> Len(toks) >= 2
      [] f = "blank" -> Len(toks) >= 2
      [] f = "white" -> Len(toks) >= 2

\* no Namelist session
NmlIdle ==
    /\ sep = "."
    /\ start = "none"
    /\ lines = <<>>
    /\ params = <<>>
    /\ string = <<>>
    /\ records = <<>>
    /\ exc = NoExc
    /\ calls = <<>>
    /\ first = <<>>

NoError == [type |-> NoExc, keys |-> {}, files |-> <<>>]

\* no call of a file-level helper
FilesIdle ==
    /\ entry = "none"
    /\ pc = "done"
    /\ request = <<>>
    /\ grp_aliases = <<>>
    /\ nml_src_paths = <<>>
    /\ nml_dst_paths = <<>>
    /\ fs = <<>>
    /\ params_mapped = <<>>
    /\ params_all = <<>>
    /\ k = 0
    /\ error = NoError
    /\ io = <<>>
    /\ written = <<>>

\* no call of ModelInterface.run
RunIdle ==
    /\ rpc = "idle"
    /\ rundir_exists = FALSE
    /\ background = FALSE
    /\ filename = FALSE
    /\ status = "none"
    /\ runfile = "none"
    /\ raising = NoExc
    /\ steps = <<>>

InitValue ==
    /\ RunIdle
    /\ NmlIdle
    /\ FilesIdle
    /\ parsed_value = Unset
    /\ line = <<>>
    /\ parsed_line = Err("unset")
    /\ \/ /\ form = "raw"
          /\ tokens = <<>>
          /\ variable_value \in Strings(ValueAlphabet, MaxFree)
       \/ /\ form \in Forms
          /\ tokens \in TokenSeqs
          /\ FormOk(form, tokens)
          /\ variable_value = FormText(form, tokens)

\* a call of _parse_value(variable_value)
ParseValue ==
    /\ parsed_value = Unset
    /\ parsed_value' = _parse_value(variable_value)
    /\ UNCHANGED <<form, tokens, variable_value, line, parsed_line, nmlVars, fileVars,
                   runVars>>

NextValue == ParseValue

SpecValue == InitValue /\ [][NextValue]_vars


(* ------------------------ Namelist sessions ---------------------------- *)
Seps == {".", ":"}

GroupPool == {<<"g">>, <<"h">>, <<>>}
NamePool == {<<"a">>, <<"b">>}

\* keys group<sep>name, with an empty group too, and keys without separator
KeyPool(sp) == {g \o <<sp>> \o n : g \in GroupPool, n \in NamePool} \cup NamePool

ValuePool ==
    { IntV(10), FloatV(15, 1), BoolV(TRUE), StrV(<<"x", " ", "y">>),
      ListV(<<>>), ListV(<<IntV(5)>>), ListV(<<IntV(1), StrV(<<"x">>)>>) }

Distinct(seq) == \A i, j \in 1..Len(seq) : i # j => seq[i] # seq[j]

\* the mappings of at most MaxParams items
Mappings(sp) ==
    {m \in UNION {[1..n -> [key : KeyPool(sp), value : ValuePool]] : n \in 1..MaxParams} :
        Distinct(Keys(m))}

LinePool ==
    { <<"&", "g">>, <<"&", "h">>, <<"/">>,
      <<" ", "a", " ", "=", " ", "1", ",", " ", "2", ",">>,
      <<" ", "3">>,
      <<" ", "b", " ", "=", " ", "1", "*", "5">>,
      <<" ", "a", " ", "=", " ", "2", " ", "!", " ", "n">> }

LineSeqs == UNION {[1..n -> LinePool] : n \in 1..MaxLines}

ValueIdle ==
    /\ form = "raw"
    /\ tokens = <<>>
    /\ variable_value = <<>>
    /\ parsed_value = Unset
    /\ line = <<>>
    /\ parsed_line = Err("unset")

\* a session that starts from a mapping: Namelist(sep).dumps(params) comes first
InitParams ==
    /\ RunIdle
    /\ ValueIdle
    /\ FilesIdle
    /\ sep \in Seps
    /\ start = "params"
    /\ lines = <<>>
    /\ params \in Mappings(sep)
    /\ first = params
    /\ string = <<>>
    /\ records = <<>>
    /\ exc = NoExc
    /\ calls = <<>>

\* a session that starts from a text: Namelist(sep).loads(string) comes first
InitString ==
    /\ RunIdle
    /\ ValueIdle
    /\ FilesIdle
    /\ sep \in Seps
    /\ start = "string"
    /\ lines \in LineSeqs
    /\ string = join(lines, <<NL>>) \o <<NL>>
    /\ params = <<>>
    /\ first = <<>>
    /\ records = <<>>
    /\ exc = NoExc
    /\ calls = <<>>

HaveParams == IF calls = <<>> THEN start = "params" ELSE calls[Len(calls)] = "loads"
HaveString == IF calls = <<>> THEN start = "string" ELSE calls[Len(calls)] = "dumps"

\* the outcome r of dumps becomes the state
DumpsReturns(r) ==
    /\ exc' = r.exc
    /\ string' = IF r.exc = NoExc THEN r.val ELSE string

\* string = Namelist(sep).dumps(params)
Dumps ==
    /\ exc = NoExc
    /\ Len(calls) < MaxCalls
    /\ HaveParams
    /\ DumpsReturns(dumps(sep, params))
    /\ calls' = Append(calls, "dumps")
    /\ UNCHANGED <<valueVars, runVars, fileVars, sep, start, lines, params, records, first>>

\* the outcome r of loads, and p of its call of parse_nml, become the state
LoadsReturns(r, p) ==
    /\ exc' = r.exc
    /\ records' = IF p.exc = NoExc THEN p.val ELSE records
    /\ params' = IF r.exc = NoExc THEN r.val ELSE params
    /\ first' = IF calls = <<>> /\ r.exc = NoExc THEN r.val ELSE first

\* params = Namelist(sep).loads(string)
Loads ==
    /\ exc = NoExc
    /\ Len(calls) < MaxCalls
    /\ HaveString
    /\ LoadsReturns(loads(sep, string), parse_nml(string, FALSE))
    /\ calls' = Append(calls, "loads")
    /\ UNCHANGED <<valueVars, runVars, fileVars, sep, start, lines, string>>

NextNml == Dumps \/ Loads

SpecParams == InitParams /\ [][NextNml]_vars

SpecString == InitString /\ [][NextNml]_vars

\* keys of two groups, so that a group can come back after the other one
GroupedKeys(sp) ==
    { <<"a", sp, "x">>, <<"b", sp, "y">>, <<"a", sp, "z">>, <<"b", sp, "x">> }

GroupedMappings(sp) ==
    {m \in UNION {[1..n -> [key : GroupedKeys(sp), value : {IntV(1), IntV(2)}]] :
                     n \in 1..MaxGrouped} :
        Distinct(Keys(m))}

\* a session that starts from a mapping of several groups
InitGrouped ==
    /\ RunIdle
    /\ ValueIdle
    /\ FilesIdle
    /\ sep \in Seps
    /\ start = "params"
    /\ lines = <<>>
    /\ params \in GroupedMappings(sep)
    /\ first = params
    /\ string = <<>>
    /\ records = <<>>
    /\ exc = NoExc
    /\ calls = <<>>

SpecGrouped == InitGrouped /\ [][NextNml]_vars

\* whole blocks: group g twice more with names it already has, a name given
\* twice in one block, a value that continues on the next line
BlockPool ==
    { << <<"&", "g">>, <<" ", "a", " ", "=", " ", "1">>, <<" ", "b", " ", "=", " ", "2">>,
         <<"/">> >>,
      << <<"&", "g">>, <<" ", "a", " ", "=", " ", "3">>, <<"/">> >>,
      << <<"&", "h">>, <<" ", "a", " ", "=", " ", "1", ",", " ", "2", ",">>, <<" ", "3">>,
         <<"/">> >>,
      << <<"&", "g">>, <<" ", "b", " ", "=", " ", "1">>, <<" ", "a", " ", "=", " ", "2">>,
         <<" ", "b", " ", "=", " ", "3">>, <<"/">> >>,
      << <<"&", "h">>, <<" ", "c", " ", "=", " ", "'", "x", "'">>, <<"/">> >> }

\* texts of inline comments
Comments ==
    { <<"n">>, <<"x", "/", "y">>, <<"&", "h">>, <<"x", " ", "=", " ", "1">>,
      <<"a", ",", " ", "b">>, <<"/">> }

\* a session that starts from a text of whole blocks, as it is or with an
\* inline comment after one of its parameter lines
InitBlocks ==
    /\ RunIdle
    /\ ValueIdle
    /\ FilesIdle
    /\ sep \in Seps
    /\ start = "string"
    /\ \E bs \in UNION {[1..n -> BlockPool] : n \in 1..MaxBlocks} :
          \/ lines = join(bs, <<>>)
          \/ \E i \in {x \in 1..Len(join(bs, <<>>)) : Contains(join(bs, <<>>)[x], "=")},
                c \in Comments :
                lines = [join(bs, <<>>) EXCEPT ![i] = @ \o <<" ", "!", " ">> \o c]
    /\ string = join(lines, <<NL>>) \o <<NL>>
    /\ params = <<>>
    /\ first = <<>>
    /\ records = <<>>
    /\ exc = NoExc
    /\ calls = <<>>

SpecBlocks == InitBlocks /\ [][NextNml]_vars

(* ----------------------------- _parse_line calls ------------------------ *)
\* logical lines: name = value [,] [! comment] with one or several "=", and
\* every text of at most MaxLineFree characters of the line alphabet
InitLine ==
    /\ RunIdle
    /\ NmlIdle
    /\ FilesIdle
    /\ form = "raw"
    /\ tokens = <<>>
    /\ variable_value = <<>>
    /\ parsed_value = Unset
    /\ parsed_line = Err("unset")
    /\ \/ \E nm \in {<<"a">>, <<" ", "b", " ">>},
             v \in { <<" ", "1">>, <<" ", "1", ",", " ", "2">>, <<"'", "x", "'">>,
                     <<" ", "'", "x", "=", "y", "'">>, <<" ", "2", " ", "=", " ", "3">>,
                     <<" ", "'", "h", "i", "!", "'">>, <<>> },
             c \in {<<>>, <<",">>, <<" ", ",">>, <<",", ",">>},
             h \in { <<>>, <<" ", "!", " ", "n", "o", "t", "e">>, <<"!">>,
                     <<" ", "!", " ", "x", " ", "=", " ", "y", ",">>,
                     <<"!", "a", "!", "b", " ">> } :
             line = nm \o <<"=">> \o v \o c \o h
       \/ line \in Strings({"a", "=", "1", "!", ",", " "}, MaxLineFree)

\* a call of _parse_line(line)
ParseLine ==
    /\ parsed_line = Err("unset")
    /\ parsed_line' = _parse_line(line)
    /\ UNCHANGED <<form, tokens, variable_value, parsed_value, line, nmlVars, fileVars,
                   runVars>>

SpecLine == InitLine /\ [][ParseLine]_vars

(* ----------------------- file-level helper calls ----------------------- *)
SourcePaths == <<"src1", "src2", "src3">>
DestPaths == <<"dst1", "dst2", "dst3">>

\* a file that does not exist
NoFile == <<"ENOENT">>

Text(ls) == join(ls, <<NL>>) \o <<NL>>

\* source namelists: two groups of plain parameters, a name with a "." (its
\* key has three pieces), and a body that starts with a continuation line
SourcePool ==
    { Text(<< <<"&", "g">>, <<" ", "a", " ", "=", " ", "1">>,
              <<" ", "b", " ", "=", " ", "2", " ", "3">>, <<"/">> >>),
      Text(<< <<"&", "h">>, <<" ", "a", " ", "=", " ", ".", "t", "r", "u", "e", ".">>,
              <<"/">> >>),
      Text(<< <<"&", "g">>, <<" ", "a", ".", "b", " ", "=", " ", "1">>, <<"/">> >>),
      Text(<< <<"&", "g">>, <<" ", "3">>, <<"/">> >>) }

RequestKeys ==
    { <<"g", ".", "a">>, <<"h", ".", "a">>, <<"p", ".", "b">>, <<"g", ".", "c">>,
      <<"g", ".", "a", ".", "b">> }
RequestValues == { IntV(7), StrV(<<"z">>) }

Requests ==
    {m \in UNION {[1..n -> [key : RequestKeys, value : RequestValues]] : n \in 1..MaxRequest} :
        Distinct(Keys(m))}

AliasPool == { None, <<>>, << Item(<<"p">>, <<"g">>) >> }

InitFiles ==
    /\ RunIdle
    /\ ValueIdle
    /\ NmlIdle
    /\ request \in Requests
    /\ \E n \in 1..MaxFiles :
          /\ nml_src_paths = SubSeq(SourcePaths, 1, n)
          /\ nml_dst_paths = SubSeq(DestPaths, 1, n)
          /\ \E texts \in [1..n -> SourcePool] :
                fs = [f \in {SourcePaths[i] : i \in 1..n} \cup {DestPaths[i] : i \in 1..n} |->
                        IF \E i \in 1..n : f = SourcePaths[i]
                        THEN texts[CHOOSE i \in 1..n : f = SourcePaths[i]]
                        ELSE NoFile]
          /\ \/ /\ entry = "param_write_to_files"
                /\ grp_aliases \in AliasPool
                /\ pc = "map"
                /\ params_mapped = <<>>
                /\ k = 0
             \/ /\ entry = "param_write_to_file"
                /\ n = 1
                /\ grp_aliases = None
                /\ pc = "write"
                /\ params_mapped = request
                /\ k = 1
    /\ params_all = <<>>
    /\ error = NoError
    /\ io = <<>>
    /\ written = <<>>

Event(op, path) == [op |-> op, path |-> path]

\* param_write_to_files, up to the call of param_check_all
MapGroups ==
    /\ pc = "map"
    /\ params_mapped' = ParamsMapped(request, grp_aliases)
    /\ pc' = "check"
    /\ k' = 1
    /\ UNCHANGED <<valueVars, runVars, nmlVars, entry, request, grp_aliases, nml_src_paths,
                   nml_dst_paths, fs, params_all, error, io, written>>

\* the outcome r of a load in param_check_all's loop
CheckLoaded(r) ==
    IF r.exc # NoExc
    THEN /\ pc' = "raised"
         /\ error' = [type |-> r.exc, keys |-> {}, files |-> <<>>]
         /\ UNCHANGED <<params_all, k>>
    ELSE /\ params_all' = Append(params_all, r.val)
         /\ k' = k + 1
         /\ UNCHANGED <<pc, error>>

\* param_check_all: params_all.append(Namelist().load(open(path)))
CheckLoad ==
    /\ pc = "check"
    /\ k <= Len(nml_src_paths)
    /\ io' = Append(io, Event("read", nml_src_paths[k]))
    /\ CheckLoaded(FileLoad(fs[nml_src_paths[k]]))
    /\ UNCHANGED <<valueVars, runVars, nmlVars, entry, request, grp_aliases, nml_src_paths,
                   nml_dst_paths, fs, params_mapped, written>>

\* param_check_all, after its loop: raise with the missing keys, or return
CheckKeys ==
    /\ pc = "check"
    /\ k > Len(nml_src_paths)
    /\ IF CheckRaises(MissingKeys(params_mapped, params_all))
       THEN /\ pc' = "raised"
            /\ error' = [type |-> "Exception",
                         keys |-> MissingKeys(params_mapped, params_all),
                         files |-> nml_src_paths]
            /\ k' = k
       ELSE /\ pc' = "write"
            /\ k' = 1
            /\ error' = error
    /\ UNCHANGED <<valueVars, runVars, nmlVars, entry, request, grp_aliases, nml_src_paths,
                   nml_dst_paths, fs, params_mapped, params_all, io, written>>

Min(a, b) == IF a < b THEN a ELSE b

\* the outcome w of param_write_to_file for the k-th pair of paths
WriteDone(w, src, dst) ==
    IF w.stage = "load"
    THEN /\ io' = Append(io, Event("read", src))
         /\ pc' = "raised"
         /\ error' = [type |-> w.exc, keys |-> {}, files |-> <<>>]
         /\ UNCHANGED <<fs, written, k>>
    ELSE /\ fs' = [fs EXCEPT ![dst] = w.text]
         /\ IF w.exc # NoExc
            THEN /\ io' = io \o <<Event("read", src), Event("open_w", dst)>>
                 /\ pc' = "raised"
                 /\ error' = [type |-> w.exc, keys |-> {}, files |-> <<>>]
                 /\ UNCHANGED <<written, k>>
            ELSE /\ io' = io \o <<Event("read", src), Event("open_w", dst),
                                  Event("write", dst)>>
                 /\ written' = Append(written, w.map)
                 /\ k' = k + 1
                 /\ UNCHANGED <<pc, error>>

\* one turn of the loop of param_write_to_files: param_write_to_file
WriteFile ==
    /\ pc = "write"
    /\ k <= Min(Len(nml_src_paths), Len(nml_dst_paths))
    /\ WriteDone(param_write_to_file(params_mapped, fs[nml_src_paths[k]]),
                 nml_src_paths[k], nml_dst_paths[k])
    /\ UNCHANGED <<valueVars, runVars, nmlVars, entry, request, grp_aliases, nml_src_paths,
                   nml_dst_paths, params_mapped, params_all>>

\* the helper returns
Return ==
    /\ pc = "write"
    /\ k > Min(Len(nml_src_paths), Len(nml_dst_paths))
    /\ pc' = "done"
    /\ UNCHANGED <<valueVars, runVars, nmlVars, entry, request, grp_aliases, nml_src_paths,
                   nml_dst_paths, fs, params_mapped, params_all, k, error, io, written>>

NextFiles == MapGroups \/ CheckLoad \/ CheckKeys \/ WriteFile \/ Return

SpecFiles == InitFiles /\ [][NextFiles]_vars

(* -------------------------- param_map_groups calls --------------------- *)
\* requests with aliased and plain groups, a key without "." and keys with
\* two "."; one alias, two aliases or none
InitAlias ==
    /\ RunIdle
    /\ ValueIdle
    /\ NmlIdle
    /\ entry = "param_map_groups"
    /\ pc = "map"
    /\ request \in
          {m \in UNION {[1..n -> [key : { <<"p", ".", "a">>, <<"g", ".", "a">>,
                                          <<"q", ".", "b">>, <<"x">>,
                                          <<"g", ".", "a", ".", "b">>,
                                          <<"p", ".", "a", ".", "b">> },
                                   value : RequestValues]] : n \in 1..MaxRequest} :
              Distinct(Keys(m))}
    /\ grp_aliases \in { << Item(<<"p">>, <<"g">>) >>,
                         << Item(<<"p">>, <<"g">>), Item(<<"q">>, <<"h">>) >>,
                         <<>> }
    /\ nml_src_paths = <<>>
    /\ nml_dst_paths = <<>>
    /\ fs = <<>>
    /\ params_mapped = <<>>
    /\ params_all = <<>>
    /\ k = 0
    /\ error = NoError
    /\ io = <<>>
    /\ written = <<>>

\* a call of param_map_groups(request, grp_aliases)
MapGroupsCall ==
    /\ entry = "param_map_groups"
    /\ pc = "map"
    /\ params_mapped' = param_map_groups(request, grp_aliases)
    /\ pc' = "done"
    /\ UNCHANGED <<valueVars, runVars, nmlVars, entry, request, grp_aliases, nml_src_paths,
                   nml_dst_paths, fs, params_all, k, error, io, written>>

SpecAlias == InitAlias /\ [][MapGroupsCall]_vars

(* ------------------------- ModelInterface.run calls -------------------- *)
\* what a step can do: return, or raise one of these
Outcomes == {"ok", "OSError", "Exception"}

Step(op, outcome) == [op |-> op, outcome |-> outcome]

\* a call of run(rundir, params, background): the run directory may
\* exist, with the runner.json an earlier run left in it
InitRun ==
    /\ ValueIdle
    /\ NmlIdle
    /\ FilesIdle
    /\ rpc = "makedirs"
    /\ rundir_exists \in BOOLEAN
    /\ background \in BOOLEAN
    /\ filename \in BOOLEAN
    /\ status = "none"
    /\ runfile \in IF rundir_exists THEN {"none", "running", "success", "failed"}
                   ELSE {"none"}
    /\ raising = NoExc
    /\ steps = <<>>

\* if not os.path.exists(rundir): os.makedirs(rundir)
MakeDirs ==
    /\ rpc = "makedirs"
    /\ IF rundir_exists
       THEN /\ rpc' = "command"
            /\ UNCHANGED <<rundir_exists, raising, steps>>
       ELSE \E o \in Outcomes :
               /\ steps' = Append(steps, Step("makedirs", o))
               /\ rundir_exists' = (o = "ok")
               /\ rpc' = IF o = "ok" THEN "command" ELSE "raised"
               /\ raising' = IF o = "ok" THEN NoExc ELSE o
    /\ UNCHANGED <<valueVars, nmlVars, fileVars, background, filename, status, runfile>>

\* args = self.command(rundir, params_kw): ValueError for a file that is not
\* executable; then workdir and environ
Command ==
    /\ rpc = "command"
    /\ \E o \in {"ok", "ValueError"} :
          /\ rpc' = IF o = "ok" THEN "write" ELSE "raised"
          /\ raising' = IF o = "ok" THEN NoExc ELSE o
    /\ UNCHANGED <<valueVars, nmlVars, fileVars, rundir_exists, background,
                   filename, status, runfile, steps>>

\* info['status'] = 'running'; self._write(rundir, info)
WriteRunning ==
    /\ rpc = "write"
    /\ status' = "running"
    /\ runfile' = "running"
    /\ steps' = Append(steps, Step("_write", "ok"))
    /\ rpc' = "setup"
    /\ UNCHANGED <<valueVars, nmlVars, fileVars, rundir_exists, background,
                   filename, raising>>

\* self.setup(rundir, params_kw): the parameter file is written when
\* self.filename is set; an exception leaves run at once
Setup ==
    /\ rpc = "setup"
    /\ \E o \in IF filename THEN Outcomes ELSE {"ok"} :
          /\ steps' = Append(steps, Step("setup", o))
          /\ rpc' = IF o = "ok" THEN "logs" ELSE "raised"
          /\ raising' = IF o = "ok" THEN NoExc ELSE o
    /\ UNCHANGED <<valueVars, nmlVars, fileVars, rundir_exists, background,
                   filename, status, runfile>>

\* if background: open log.out and log.err; an exception leaves run at once
OpenLogs ==
    /\ rpc = "logs"
    /\ \E o \in IF background THEN {"ok", "OSError"} ELSE {"ok"} :
          /\ steps' = IF background THEN Append(steps, Step("open", o)) ELSE steps
          /\ rpc' = IF o = "ok" THEN "call" ELSE "raised"
          /\ raising' = IF o = "ok" THEN NoExc ELSE o
    /\ UNCHANGED <<valueVars, nmlVars, fileVars, rundir_exists, background,
                   filename, status, runfile>>

\* where run goes after subprocess.check_call: on to postprocess when it
\* returned, to the except and finally clauses when it raised
AfterCallAlways(o) == "postprocess"

AfterCall(o) == IF o = "ok" THEN "postprocess" ELSE "finally"

\* try: subprocess.check_call(...); info['status'] = 'success'
\* except: info['status'] = 'failed'; raise
Call ==
    /\ rpc = "call"
    /\ \E o \in Outcomes :
          /\ steps' = Append(steps, Step("check_call", o))
          /\ status' = IF o = "ok" THEN "success" ELSE "failed"
          /\ raising' = IF o = "ok" THEN NoExc ELSE o
          /\ rpc' = AfterCall(o)
    /\ UNCHANGED <<valueVars, nmlVars, fileVars, rundir_exists, background,
                   filename, runfile>>

\* info['output'] = output = self.postprocess(rundir), inside the try
Postprocess ==
    /\ rpc = "postprocess"
    /\ \E o \in Outcomes :
          /\ steps' = Append(steps, Step("postprocess", o))
          /\ status' = IF o = "ok" THEN status ELSE "failed"
          /\ raising' = IF o = "ok" THEN raising ELSE o
          /\ rpc' = "finally"
    /\ UNCHANGED <<valueVars, nmlVars, fileVars, rundir_exists, background,
                   filename, runfile>>

\* finally: self._write(rundir, info); then return output, or the exception
\* goes on
FinalWrite ==
    /\ rpc = "finally"
    /\ runfile' = status
    /\ steps' = Append(steps, Step("_write", "ok"))
    /\ rpc' = IF raising = NoExc THEN "returned" ELSE "raised"
    /\ UNCHANGED <<valueVars, nmlVars, fileVars, rundir_exists, background,
                   filename, status, raising>>

NextRun ==
    MakeDirs \/ Command \/ WriteRunning \/ Setup \/ OpenLogs \/ Call \/ Postprocess
        \/ FinalWrite

SpecRun == InitRun /\ [][NextRun]_vars

(* ======================= claims on the value grammar =================== *)
RuleOrder ==
    <<"integer", "float", "boolean", "string", "slash", "comma", "repeat", "white", "error">>

\* the condition under which a rule of the value grammar applies to a text
Matches(rule, v) ==
    CASE rule = "integer" -> IsIntLit(v)
      [] rule = "float" -> IsFloatLit(v)
      [] rule = "boolean" -> lower(v) \in TrueWords \cup FalseWords
      [] rule = "string" -> IsQuoted(v)
      [] rule = "slash" -> startswith(v, "/") /\ endswith(v, "/")
      [] rule = "comma" -> Contains(v, ",")
      [] rule = "repeat" -> Contains(v, "*")
      [] rule = "white" -> Len(wsplit(v)) > 1
      [] rule = "error" -> TRUE

FirstMatch(v) ==
    RuleOrder[CHOOSE i \in 1..Len(RuleOrder) :
                 /\ Matches(RuleOrder[i], v)
                 /\ \A j \in 1..(i - 1) : ~Matches(RuleOrder[j], v)]

\* the result r is the one the rule gives for the text v
Decides(rule, v, r) ==
    CASE rule = "integer" -> r = IntV(IntOf(v))
      [] rule = "float" -> r = FloatOf(v) /\ r.k = "float"
      [] rule = "boolean" -> r = BoolV(lower(v) \in TrueWords)
      [] rule = "string" -> r = StrV(SubSeq(v, 2, Len(v) - 1))
      [] rule = "slash" ->
            /\ r.k \in {"list", "ValueError"}
            /\ r = _parse_array(split(SubSeq(v, 2, Len(v) - 1), ","))
      [] rule = "comma" ->
            r.k \in {"list", "ValueError"} /\ r = _parse_array(split(v, ","))
      [] rule = "repeat" ->
            r.k \in {"list", "ValueError"} /\ r = _parse_array(<<v>>)
      [] rule = "white" ->
            r.k \in {"list", "ValueError"} /\ r = _parse_array(wsplit(v))
      [] rule = "error" -> r = ValueError

\* C2: _parse_value tries integer, float, boolean, quoted string, slash array,
\* comma array, repeat-count array, whitespace array, error in this order and
\* the first rule that matches decides: "10" is the integer 10, "10.0" a
\* float, ".true." true, "'x'" the string x, "1,2" the list [1, 2].
C2_TypePrecedence ==
    parsed_value # Unset =>
        /\ Decides(FirstMatch(variable_value), variable_value, parsed_value)
        /\ variable_value = <<"1", "0">> => parsed_value = IntV(10)
        /\ variable_value = <<"1", "0", ".", "0">> => parsed_value = FloatV(10, 0)
        /\ variable_value = <<".", "t", "r", "u", "e", ".">> => parsed_value = BoolV(TRUE)
        /\ variable_value = <<"'", "x", "'">> => parsed_value = StrV(<<"x">>)
        /\ variable_value = <<"1", ",", "2">> => parsed_value = ListV(<<IntV(1), IntV(2)>>)

C2_Witness ==
    /\ variable_value = <<"1", ",", "2">>
    /\ parsed_value = ListV(<<IntV(1), IntV(2)>>)

RECURSIVE Expansion(_)
\* the concatenation, in order, of the expansions of the tokens
Expansion(toks) ==
    IF toks = <<>> THEN <<>>
    ELSE Repeat(toks[1].cnt, toks[1].val) \o Expansion(Tail(toks))

HasRepeat(toks) == \E i \in 1..Len(toks) : toks[i].rep

\* C8: a COUNT*VALUE token expands to COUNT repetitions of the parsed VALUE,
\* as the whole value-text and in place as one token of a comma-, slash- or
\* whitespace-delimited array.
C8_RepeatExpansion ==
    (parsed_value # Unset /\ form \in Forms /\ HasRepeat(tokens)) =>
        parsed_value = ListV(Expansion(tokens))

\* C8 as the code has it: in place in comma- and slash-delimited arrays and
\* as the whole value-text.
C8_RepeatExpansionCommaSlash ==
    (parsed_value # Unset /\ form \in {"whole", "slash", "comma"} /\ HasRepeat(tokens)) =>
        parsed_value = ListV(Expansion(tokens))

C8_WhiteRepeatRaises ==
    /\ form = "white"
    /\ tokens = << [text |-> <<"1">>, rep |-> FALSE, cnt |-> 1, val |-> IntV(1)],
                   [text |-> <<"2", "*", "3">>, rep |-> TRUE, cnt |-> 2, val |-> IntV(3)] >>
    /\ parsed_value = ValueError

AllScalars(toks) == \A i \in 1..Len(toks) : ~toks[i].rep

\* C9: for n >= 2 scalar tokens the slash form, the comma form and the
\* whitespace form all parse to the list of the values of the tokens, each
\* value being what the token parses to alone.
C9_ArrayVariantsAgree ==
    (parsed_value # Unset /\ form \in Forms /\ AllScalars(tokens)) =>
        /\ form = "whole" => parsed_value = tokens[1].val
        /\ (form \in {"slash", "comma", "white"} /\ Len(tokens) >= 2) =>
               parsed_value = ListV([i \in 1..Len(tokens) |-> tokens[i].val])

C9_Witness ==
    /\ form = "white"
    /\ Len(tokens) >= 2
    /\ AllScalars(tokens)
    /\ tokens[1].val.k = "str"
    /\ tokens[2].val.k = "float"
    /\ parsed_value = ListV([i \in 1..Len(tokens) |-> tokens[i].val])


(* ===================== claims on dumps and loads ======================= *)
Scalar(v) == v.k \in {"int", "float", "bool", "str"}

\* a scalar or a one-level list of scalars
Representable(v) == Scalar(v) \/ (v.k = "list" /\ \A i \in 1..Len(v.l) : Scalar(v.l[i]))

\* group<sep>name with non-empty group and name, neither containing sep
GoodKey(key, sp) ==
    /\ count(key, sp) = 1
    /\ ~startswith(key, sp)
    /\ ~endswith(key, sp)

GoodMapping(m, sp) ==
    \A i \in 1..Len(m) : GoodKey(m[i].key, sp) /\ Representable(m[i].value)

\* C1: for every mapping d with keys group<sep>name and values that are
\* scalars or one-level lists of scalars (the empty and the one-element list
\* included), loads(dumps(d)) equals d.
C1_RoundTrip ==
    (start = "params" /\ GoodMapping(first, sep)) =>
        /\ calls = <<"dumps">> => exc = NoExc
        /\ calls = <<"dumps", "loads">> => exc = NoExc /\ params = first

\* the part of C1 that the code has: scalars and lists of two or more scalars
LongLists(m) == \A i \in 1..Len(m) : m[i].value.k = "list" => Len(m[i].value.l) >= 2

C1_RoundTripLongLists ==
    (start = "params" /\ GoodMapping(first, sep) /\ LongLists(first)) =>
        /\ calls = <<"dumps">> => exc = NoExc
        /\ calls = <<"dumps", "loads">> => exc = NoExc /\ params = first

\* a line opens a group with "&" and no "/" follows it
Unterminated(ls) ==
    \E i \in 1..Len(ls) :
        /\ startswith(strip(ls[i]), "&")
        /\ \A j \in i..Len(ls) : ~Contains(ls[j], "/")

\* C3: loads of a text in which a group is opened with "&" and no "/"
\* follows fails with an error and returns no mapping.
C3_UnterminatedGroupRaises ==
    (start = "string" /\ calls = <<"loads">> /\ Unterminated(lines)) => exc # NoExc

\* a key with no separator, or with nothing before the separator
NoGroup(key, sp) == ~Contains(key, sp) \/ startswith(key, sp)

\* C4: dumps of a mapping that holds a key without a group segment raises
\* (ValueError) and returns no text, wherever the key stands.
C4_NoGroupRaises ==
    (start = "params" /\ calls = <<"dumps">>
        /\ \E i \in 1..Len(first) : NoGroup(first[i].key, sep)) =>
        exc = "ValueError" /\ string = <<>>

C4_Witness ==
    /\ start = "params"
    /\ calls = <<"dumps">>
    /\ Len(first) = 2
    /\ GoodKey(first[1].key, sep)
    /\ startswith(first[2].key, sep)
    /\ exc = "ValueError"
    /\ string = <<>>

\* C7: for every text s that loads accepts, dumps(loads(s)) succeeds and
\* loads(dumps(loads(s))) equals loads(s).
C7_ReloadPreserves ==
    start = "string" =>
        /\ calls = <<"loads", "dumps">> => exc = NoExc
        /\ calls = <<"loads", "dumps", "loads">> => exc = NoExc /\ params = first

\* a text of one group: a header line, body lines without "&" and "/", "/"
OneGroup(ls) ==
    /\ Len(ls) >= 2
    /\ ls[1] \in {<<"&", "g">>, <<"&", "h">>}
    /\ ls[Len(ls)] = <<"/">>
    /\ \A i \in 2..(Len(ls) - 1) : ~Contains(ls[i], "&") /\ ~Contains(ls[i], "/")

Body(ls) == SubSeq(ls, 2, Len(ls) - 1)

\* the physical lines that contain "="
StartLines(body) == {i \in 1..Len(body) : Contains(body[i], "=")}

RECURSIVE Concatenation(_, _, _)
\* the stripped physical lines i..j, one after the other, nothing in between
Concatenation(body, i, j) ==
    IF i > j THEN <<>> ELSE strip(body[i]) \o Concatenation(body, i + 1, j)

\* the q-th logical line: from the q-th line with "=" up to the next one
LogicalLine(body, q) ==
    LET S == StartLines(body)
        i == CHOOSE x \in S : Cardinality({y \in S : y <= x}) = q
        later == {y \in S : y > i}
        j == IF later = {} THEN Len(body)
             ELSE (CHOOSE x \in later : \A y \in later : x <= y) - 1
    IN  Concatenation(body, i, j)

\* C10: in a group body a line with "=" starts a logical line and a line
\* without "=" is appended, with nothing added, to the preceding logical
\* line; each value is parsed from the concatenation (a = 1, 2, then 3 gives
\* [1, 2, 3]) and the group has as many parameters as lines with "=".
C10_ContinuationJoining ==
    (start = "string" /\ calls = <<"loads">> /\ OneGroup(lines) /\ exc = NoExc) =>
        /\ Len(records) = Cardinality(StartLines(Body(lines)))
        /\ \A q \in 1..Len(records) :
              /\ records[q].group = Tail(lines[1])
              /\ records[q].value = _parse_line(LogicalLine(Body(lines), q)).val.value
              /\ records[q].name = _parse_line(LogicalLine(Body(lines), q)).val.name
        /\ Body(lines) = << <<" ", "a", " ", "=", " ", "1", ",", " ", "2", ",">>, <<" ", "3">> >>
              => records[1].value = ListV(<<IntV(1), IntV(2), IntV(3)>>)

C10_Witness ==
    /\ start = "string"
    /\ calls = <<"loads">>
    /\ exc = NoExc
    /\ lines = << <<"&", "g">>, <<" ", "a", " ", "=", " ", "1", ",", " ", "2", ",">>,
                  <<" ", "3">>, <<"/">> >>
    /\ Len(records) = 1
    /\ records[1].value = ListV(<<IntV(1), IntV(2), IntV(3)>>)

(* ==================== claims on the file-level helpers ================= *)
\* the sources are never written: what load returns for the i-th source
Source(i) == FileLoad(fs[nml_src_paths[i]])

\* a requested key after alias expansion: the group before the first "." is
\* replaced by the name it is an alias of
HasPrefix(key, prefix) ==
    Len(key) >= Len(prefix) /\ SubSeq(key, 1, Len(prefix)) = prefix

Expanded(key) ==
    IF grp_aliases # None
       /\ \E i \in 1..Len(grp_aliases) : HasPrefix(key, grp_aliases[i].key \o <<".">>)
    THEN LET a == CHOOSE a \in {grp_aliases[i] : i \in 1..Len(grp_aliases)} :
                     HasPrefix(key, a.key \o <<".">>)
         IN  a.value \o SubSeq(key, Len(a.key) + 1, Len(key))
    ELSE key

RequestedKeys == {Expanded(request[i].key) : i \in 1..Len(request)}

SourceKeys ==
    UNION {{Source(i).val[j].key : j \in 1..Len(Source(i).val)} :
              i \in {x \in 1..Len(nml_src_paths) : Source(x).exc = NoExc}}

Verified ==
    /\ \A i \in 1..Len(nml_src_paths) : Source(i).exc = NoExc
    /\ RequestedKeys \subseteq SourceKeys

DestinationTouched ==
    \/ \E i \in 1..Len(io) : io[i].op \in {"open_w", "write"}
    \/ \E i \in 1..Len(nml_dst_paths) : fs[nml_dst_paths[i]] # NoFile

\* C5: param_write_to_files first reads every source file and checks the
\* requested keys (after alias expansion) against the union of the source
\* keys; when keys are missing it raises an error with all the missing keys
\* and all the files checked and no destination has been opened or written;
\* a destination is opened or written only after the verification succeeded.
C5_VerifyBeforeWrite ==
    entry = "param_write_to_files" =>
        /\ DestinationTouched =>
              /\ Verified
              /\ Len(io) > Len(nml_src_paths)
              /\ \A i \in 1..Len(nml_src_paths) :
                    io[i] = Event("read", nml_src_paths[i])
        /\ (pc \in {"write", "done"}) => Verified
        /\ (pc = "raised" /\ error.type = "Exception") =>
              /\ error.keys = RequestedKeys \ SourceKeys
              /\ error.keys # {}
              /\ error.files = nml_src_paths
              /\ ~DestinationTouched
        /\ (pc = "raised" /\ ~DestinationTouched
            /\ \A i \in 1..Len(nml_src_paths) : Source(i).exc = NoExc) =>
              error.type = "Exception"

\* the part of C5 that the code has: requested keys with one "."
C5_VerifyBeforeWriteSimpleKeys ==
    (\A i \in 1..Len(request) : count(request[i].key, ".") <= 1) => C5_VerifyBeforeWrite

\* two files were checked and two requested keys, one of them written with
\* an alias, are missing from both
C5_Witness ==
    /\ entry = "param_write_to_files"
    /\ pc = "raised"
    /\ error.type = "Exception"
    /\ Len(nml_src_paths) = 2
    /\ error.files = nml_src_paths
    /\ Cardinality(error.keys) = 2
    /\ \E i \in 1..Len(request) : Expanded(request[i].key) # request[i].key
    /\ ~DestinationTouched

\* the value requested for key (the request holds it)
RequestedValue(key) ==
    (CHOOSE r \in {params_mapped[i] : i \in 1..Len(params_mapped)} : r.key = key).value

\* C6: the mapping param_write_to_file writes has the keys of the mapping
\* loaded from the source file, in the same order; a key that is also
\* requested has the requested value, every other key the value of the
\* source; a requested key the source does not have is never added.
C6_UpdateOnlyExisting ==
    \A i \in 1..Len(written) :
        /\ Source(i).exc = NoExc
        /\ Keys(written[i]) = Keys(Source(i).val)
        /\ \A j \in 1..Len(written[i]) :
              written[i][j].value =
                  IF HasKey(params_mapped, written[i][j].key)
                  THEN RequestedValue(written[i][j].key)
                  ELSE Source(i).val[j].value
        /\ fs[nml_dst_paths[i]] = FileDump(written[i]).val

\* a file was written whose source has a requested key (its value changed),
\* lacks another requested key, and has a key that was not requested
C6_Witness ==
    \E i \in 1..Len(written) :
        /\ \E j \in 1..Len(written[i]) :
              /\ HasKey(params_mapped, written[i][j].key)
              /\ written[i][j].value # Source(i).val[j].value
        /\ \E j \in 1..Len(written[i]) : ~HasKey(params_mapped, written[i][j].key)
        /\ \E j \in 1..Len(params_mapped) : ~HasKey(written[i], params_mapped[j].key)

(* ======================= claims on the written text ==================== *)
\* the lines of a text that ends with a newline
TextLines(text) == split(SubSeq(text, 1, Len(text) - 1), NL)

IsHeader(l) == l # <<>> /\ l[1] = "&"

\* the group names of the "&GROUP" lines, in the order of the text
HeaderGroups(ls) ==
    LET hs == SelectSeq(ls, IsHeader) IN [i \in 1..Len(hs) |-> Tail(hs[i])]

\* the positions of the "&GROUP" lines
HeaderAt(ls) == {i \in 1..Len(ls) : IsHeader(ls[i])}

\* the position of the n-th "&GROUP" line
NthHeader(ls, n) ==
    CHOOSE i \in HeaderAt(ls) : Cardinality({j \in HeaderAt(ls) : j <= i}) = n

\* the number of lines between the n-th "&GROUP" line and the "/" that ends it
BlockSize(ls, n) ==
    LET h == NthHeader(ls, n)
        ends == {j \in (h + 1)..Len(ls) : ls[j] = <<"/">>}
    IN  IF ends = {} THEN -1
        ELSE (CHOOSE j \in ends : \A e \in ends : j <= e) - h - 1

KeyGroup(key, sp) == split(key, sp)[1]

RECURSIVE FirstSeen(_, _)
\* the distinct groups of a mapping, in the order in which they are first seen
FirstSeen(m, sp) ==
    IF m = <<>> THEN <<>>
    ELSE LET r == FirstSeen(SubSeq(m, 1, Len(m) - 1), sp)
             g == KeyGroup(m[Len(m)].key, sp)
         IN  IF \E i \in 1..Len(r) : r[i] = g THEN r ELSE Append(r, g)

RecordsOf(m, sp, g) == Cardinality({i \in 1..Len(m) : KeyGroup(m[i].key, sp) = g})

\* C11: dumps writes exactly one "&GROUP ... /" block for each distinct
\* group of the mapping, the blocks stand in the order in which the groups
\* are first seen, and each block has one line per record of its group, also
\* when the keys of a group are not adjacent (a.x, b.y, a.z).
C11_OneBlockPerGroup ==
    (start = "params" /\ calls = <<"dumps">> /\ exc = NoExc) =>
        LET ls == TextLines(string)
        IN  /\ HeaderGroups(ls) = FirstSeen(first, sep)
            /\ \A n \in 1..Len(HeaderGroups(ls)) :
                  BlockSize(ls, n) = RecordsOf(first, sep, HeaderGroups(ls)[n])

\* the keys of every group stand next to each other in the mapping
Adjacent(m, sp) ==
    \A i, j \in 1..Len(m) :
        (i < j /\ KeyGroup(m[i].key, sp) = KeyGroup(m[j].key, sp)) =>
            \A x \in i..j : KeyGroup(m[x].key, sp) = KeyGroup(m[i].key, sp)

\* the part of C11 that the code has: mappings whose groups are adjacent
C11_OneBlockPerAdjacentGroup ==
    (start = "params" /\ calls = <<"dumps">> /\ exc = NoExc /\ Adjacent(first, sep)) =>
        LET ls == TextLines(string)
        IN  /\ HeaderGroups(ls) = FirstSeen(first, sep)
            /\ \A n \in 1..Len(HeaderGroups(ls)) :
                  BlockSize(ls, n) = RecordsOf(first, sep, HeaderGroups(ls)[n])

(* ========================= claims on the line parser =================== *)
\* the text before the first "!" (the whole line when it has none), trimmed
BeforeComment(l) ==
    IF Contains(l, "!") THEN strip(SubSeq(l, 1, index(l, "!") - 1)) ELSE l

\* the working line: the text before the comment, less one trailing comma
WorkingLine(l) ==
    LET b == BeforeComment(l)
    IN  IF b # <<>> /\ b[Len(b)] = "," THEN SubSeq(b, 1, Len(b) - 1) ELSE b

\* the trimmed text left of the first "="
LeftOfFirst(w) == strip(SubSeq(w, 1, index(w, "=") - 1))

\* the trimmed text right of the first "="
RightOfFirst(w) == strip(SubSeq(w, index(w, "=") + 1, Len(w)))

\* C12: _parse_line splits the working line on the first "=" only: the name
\* is the trimmed text left of it, the value is the value grammar's parse of
\* the whole trimmed text right of it (further "=" included), and only a
\* line with no "=" at all is a malformed-line error.
C12_SplitOnFirstEquals ==
    parsed_line # Err("unset") =>
        LET w == WorkingLine(line)
        IN  IF ~Contains(w, "=") THEN parsed_line.exc # NoExc
            ELSE LET v == _parse_value(RightOfFirst(w))
                 IN  IF Raised(v) THEN parsed_line.exc = v.k
                     ELSE /\ parsed_line.exc = NoExc
                          /\ parsed_line.val.name = LeftOfFirst(w)
                          /\ parsed_line.val.value = v

\* the part of C12 that the code has: working lines with at most one "="
C12_SplitOnOnlyEquals ==
    (parsed_line # Err("unset") /\ count(WorkingLine(line), "=") <= 1) =>
        LET w == WorkingLine(line)
        IN  IF ~Contains(w, "=") THEN parsed_line.exc # NoExc
            ELSE LET v == _parse_value(RightOfFirst(w))
                 IN  IF Raised(v) THEN parsed_line.exc = v.k
                     ELSE /\ parsed_line.exc = NoExc
                          /\ parsed_line.val.name = LeftOfFirst(w)
                          /\ parsed_line.val.value = v

\* C14: the help text of a parsed record is the trimmed text after the first
\* "!" of its line, and empty for a line without "!"; its name and value are
\* parsed from the text before the "!" only, less one trailing comma.
C14_CommentCapture ==
    (parsed_line # Err("unset") /\ parsed_line.exc = NoExc) =>
        /\ parsed_line.val.comment =
              IF Contains(line, "!")
              THEN strip(SubSeq(line, index(line, "!") + 1, Len(line)))
              ELSE <<>>
        /\ parsed_line.val.name = LeftOfFirst(WorkingLine(line))
        /\ parsed_line.val.value = _parse_value(RightOfFirst(WorkingLine(line)))

\* "a= 1, 2, ! x = y," was parsed: the value is [1, 2] and the help "x = y,"
C14_Witness ==
    /\ line = <<"a", "=", " ", "1", ",", " ", "2", ",", " ", "!", " ", "x", " ", "=", " ", "y", ",">>
    /\ parsed_line = Ok([name |-> <<"a">>,
                         value |-> ListV(<<IntV(1), IntV(2)>>),
                         comment |-> <<"x", " ", "=", " ", "y", ",">>])

(* ========================= claims on group aliasing ==================== *)
\* the request with the alias of every key replaced by its group name
Remapped == [i \in 1..Len(request) |-> Item(Expanded(request[i].key), request[i].value)]

\* C13: param_map_groups replaces the group segment of a key by the group it
\* is an alias of and leaves the rest of the key and the value unchanged; a
\* key whose group is no alias, or that has no separator, is returned
\* unchanged; when the remapped keys are distinct no entry is lost.
C13_AliasesRemapGroup ==
    (entry = "param_map_groups" /\ pc = "done" /\ Distinct(Keys(Remapped))) =>
        params_mapped = Remapped

\* the part of C13 that the code has: keys with at most one "."
C13_AliasesRemapSimpleKeys ==
    (entry = "param_map_groups" /\ pc = "done" /\ Distinct(Keys(Remapped))
        /\ \A i \in 1..Len(request) : count(request[i].key, ".") <= 1) =>
        params_mapped = Remapped

(* ====================== claims on ModelInterface.run =================== *)
\* the positions in steps of the step op
At(op) == {i \in 1..Len(steps) : steps[i].op = op}

Precedes(a, b) == \A i \in At(a), j \in At(b) : i < j

Ended == rpc \in {"returned", "raised"}

IsCore(x) == x.op \in {"setup", "check_call", "postprocess"}

\* C15: run takes its steps in the order: create the run directory when it
\* does not exist, setup(), the subprocess call, postprocess(), write
\* runner.json; postprocess() comes only after a subprocess call that
\* returned, and once the subprocess was called the last step is the write of
\* runner.json, whether the call succeeded or failed.
C15_StepsInOrder ==
    /\ At("makedirs") # {} => steps[1].op = "makedirs"
    /\ (rpc \notin {"idle", "makedirs"} /\ At("makedirs") = {}) => rundir_exists
    /\ Precedes("makedirs", "setup")
    /\ Precedes("setup", "check_call")
    /\ Precedes("check_call", "postprocess")
    /\ \A op \in {"makedirs", "setup", "check_call", "postprocess"} : Cardinality(At(op)) <= 1
    /\ \A j \in At("postprocess") : \E i \in 1..(j - 1) : steps[i] = Step("check_call", "ok")
    /\ (Ended /\ At("check_call") # {}) =>
          /\ steps[Len(steps)].op = "_write"
          /\ \A i \in At("check_call") \cup At("postprocess") : i < Len(steps)
    /\ rpc = "returned" =>
          SelectSeq(steps, IsCore) = << Step("setup", "ok"), Step("check_call", "ok"),
                                        Step("postprocess", "ok") >>

\* run returned after it had to create the directory and open the log files
C15_Witness ==
    /\ rpc = "returned"
    /\ steps = << Step("makedirs", "ok"), Step("_write", "ok"), Step("setup", "ok"),
                  Step("open", "ok"), Step("check_call", "ok"),
                  Step("postprocess", "ok"), Step("_write", "ok") >>

\* C16: once run has recorded the status 'running' in runner.json, whenever
\* it ends, by returning or by raising from setup(), from opening the log
\* files, from the subprocess call or from postprocess(), the status in
\* runner.json is 'success' or 'failed', and 'success' only when the
\* subprocess call and postprocess() both completed.
C16_NeverStaysRunning ==
    (Ended /\ At("_write") # {}) =>
        /\ runfile \in {"success", "failed"}
        /\ runfile = "success" =>
              /\ \E i \in 1..Len(steps) : steps[i] = Step("check_call", "ok")
              /\ \E i \in 1..Len(steps) : steps[i] = Step("postprocess", "ok")

\* the part of C16 that the code has: runs that reached the subprocess call
C16_StatusAfterCall ==
    (Ended /\ At("check_call") # {}) =>
        /\ runfile \in {"success", "failed"}
        /\ runfile = "success" =>
              /\ \E i \in 1..Len(steps) : steps[i] = Step("check_call", "ok")
              /\ \E i \in 1..Len(steps) : steps[i] = Step("postprocess", "ok")

(* ======================= claims on comments and keys =================== *)
\* the text of lines
TextOf(ls) == join(ls, <<NL>>) \o <<NL>>

\* line l ends with the inline comment " ! c" after a text that holds "="
Commented(l, c) ==
    /\ Len(l) > Len(c) + 3
    /\ SubSeq(l, Len(l) - Len(c) - 2, Len(l)) = <<" ", "!", " ">> \o c
    /\ Contains(SubSeq(l, 1, Len(l) - Len(c) - 3), "=")

\* the lines with the inline comment c of line i taken away
Plain(ls, i, c) == [ls EXCEPT ![i] = SubSeq(@, 1, Len(@) - Len(c) - 3)]

\* C17: when a text that loads accepts gets an inline comment "! c" after
\* one of its parameter lines (a line whose value goes on in the next line
\* included; c may hold "&", "/", "=" or ","), loads of the commented text
\* returns the same group/name/value triples.
C17_CommentsKeepTriples ==
    (start = "string" /\ calls = <<"loads">>) =>
        \A i \in 1..Len(lines), c \in Comments :
            (Commented(lines[i], c) /\ loads(sep, TextOf(Plain(lines, i, c))).exc = NoExc) =>
                /\ exc = NoExc
                /\ params = loads(sep, TextOf(Plain(lines, i, c))).val

\* the part of C17 that the code has: a comment without "&", after a line
\* that is not followed by a continuation line
C17_PlainCommentsKeepTriples ==
    (start = "string" /\ calls = <<"loads">>) =>
        \A i \in 1..Len(lines), c \in Comments :
            (/\ Commented(lines[i], c)
             /\ ~Contains(c, "&")
             /\ (i < Len(lines) =>
                    Contains(lines[i + 1], "=") \/ Contains(lines[i + 1], "/"))
             /\ loads(sep, TextOf(Plain(lines, i, c))).exc = NoExc) =>
                /\ exc = NoExc
                /\ params = loads(sep, TextOf(Plain(lines, i, c))).val

\* key of a record
RecordKey(p) == p.group \o <<sep>> \o p.name

\* the positions of the records that are the first with their key
FirstOfKey == {i \in 1..Len(records) : \A j \in 1..(i - 1) : RecordKey(records[j]) # RecordKey(records[i])}

\* the position of the last record with the key of record i
LastOfKey(i) ==
    CHOOSE j \in 1..Len(records) :
        /\ RecordKey(records[j]) = RecordKey(records[i])
        /\ \A x \in (j + 1)..Len(records) : RecordKey(records[x]) # RecordKey(records[i])

\* C19: the keys of loads(text) stand in the order in which their records
\* first appear; a key that occurs more than once (a name repeated in a
\* group, a group opened twice) has one entry, at the place of its first
\* occurrence, with the value of its last occurrence; no error is raised.
C19_FirstPlaceLastValue ==
    (start = "string" /\ calls = <<"loads">> /\ exc = NoExc) =>
        /\ Len(params) = Cardinality(FirstOfKey)
        /\ \A i \in FirstOfKey :
              LET n == Cardinality({j \in FirstOfKey : j <= i})
              IN  /\ params[n].key = RecordKey(records[i])
                  /\ params[n].value = records[LastOfKey(i)].value

\* group g is opened twice: a = 1, b = 2 and then a = 3
C19_Witness ==
    /\ calls = <<"loads">>
    /\ exc = NoExc
    /\ lines = << <<"&", "g">>, <<" ", "a", " ", "=", " ", "1">>,
                  <<" ", "b", " ", "=", " ", "2">>, <<"/">>,
                  <<"&", "g">>, <<" ", "a", " ", "=", " ", "3">>, <<"/">> >>
    /\ Len(records) = 3
    /\ params = << Item(<<"g", sep, "a">>, IntV(3)), Item(<<"g", sep, "b">>, IntV(2)) >>


\* the values of the tokens, each as the token parses alone
TokenValues(toks) == [i \in 1..Len(toks) |-> toks[i].val]

\* C18: blanks around the commas of an array are insignificant: for n >= 2
\* scalar tokens (integer, float, boolean or quoted string) the text
\* "t1, t2, ..., tn" parses to the same list as "t1,t2,...,tn", each element
\* being what its trimmed token parses to alone.
C18_BlanksAfterCommas ==
    (parsed_value # Unset /\ form = "blank" /\ AllScalars(tokens)) =>
        /\ parsed_value = _parse_value(FormText("comma", tokens))
        /\ parsed_value = ListV(TokenValues(tokens))

\* the tokens after the first are integer or float literals
NumbersAfterFirst(toks) ==
    \A i \in 2..Len(toks) : toks[i].val.k \in {"int", "float"}

\* C18 as the code has it: the blank is insignificant in front of a number,
\* which int() and float() trim themselves.
C18_BlanksBeforeNumbers ==
    (parsed_value # Unset /\ form = "blank" /\ AllScalars(tokens)
        /\ NumbersAfterFirst(tokens)) =>
        /\ parsed_value = _parse_value(FormText("comma", tokens))
        /\ parsed_value = ListV(TokenValues(tokens))

\* a boolean or a quoted string behind a blank is rejected
C18_BlankBeforeWordRaises ==
    (parsed_value # Unset /\ form = "blank" /\ AllScalars(tokens)
        /\ ~NumbersAfterFirst(tokens)) =>
        parsed_value = ValueError

=============================================================================
